---- MODULE Spec2Model ----
(***************************************************************************)
(* KmlViewer (src/src/KmlViewer.jsx): a React component that reads a KML   *)
(* file, converts it to GeoJSON, tallies geometry types and line lengths   *)
(* and renders a map with two optional panels.                             *)
(*                                                                         *)
(* The component's state is its five useState hooks.  File reads are the   *)
(* only asynchronous operation: a FileReader started by handleFileUpload   *)
(* or handleDrop stays in flight until the event loop delivers its onload  *)
(* or onerror callback.  Every handler runs to completion on the event     *)
(* loop: while pc # "idle" no other handler runs.                          *)
(*                                                                         *)
(* The five hook variables hold the values the setters have set.  What is  *)
(* on screen is the output of the latest render, kept in view, and when a  *)
(* render runs is React's decision.  The application is a Vite React       *)
(* scaffold whose entry point mounts the component with createRoot:        *)
(*  - the setters of parseKML, called from a FileReader callback, only     *)
(*    queue updates, which a later task renders; other callbacks and       *)
(*    clicks may run before it.  The call is shown setter by setter.       *)
(*  - a click renders before its event ends.                               *)
(*                                                                         *)
(* Library behaviour the component relies on:                              *)
(*  - DOMParser.parseFromString never throws for 'text/xml'; for text that *)
(*    is not well-formed XML it returns a document holding a <parsererror> *)
(*    element next to whatever the parser kept: the Placemarks read before *)
(*    the error in some browsers, none in others.                          *)
(*  - kml() (@tmcw/togeojson) returns one feature per Placemark; a         *)
(*    Placemark without geometry becomes a feature whose geometry is null. *)
(*  - length() (@turf/turf) returns kilometres, here whole numbers.        *)
(***************************************************************************)
EXTENDS Integers, Sequences, FiniteSets, TLC

\* ---------------------------------------------------------------- bounds
MaxFeatures == 2    \* Placemarks in all the files uploaded in one behaviour
MaxLen == 1         \* largest length (km) of one line feature
MaxUploads == 2     \* reads the user starts in one behaviour

\* ---------------------------------------------------------------- inputs
LineTypes == {"LineString", "MultiLineString"}

\* A Placemark as the converter sees it: its geometry type ("none" when it
\* has no geometry), and for a line what length() does on it.
Placemarks ==
    {[type |-> "none", len |-> 0, lenThrows |-> FALSE],
     [type |-> "Point", len |-> 0, lenThrows |-> FALSE]}
    \cup [type : LineTypes, len : 1..MaxLen, lenThrows : {FALSE}]
    \cup [type : LineTypes, len : {0}, lenThrows : {TRUE}]

SeqsUpTo(S, n) == UNION {[1..k -> S] : k \in 0..n}

ConvMessages == {"bad kml"}

\* The text of a file: whether it is well-formed XML, the Placemarks the
\* parser hands to the converter (for text that is not well-formed, the ones
\* it kept: none for text that is not XML at all, those before the error for
\* a truncated or badly escaped KML), and the message of the error the
\* converter raises on it, if any.
NonXmlText == [wellFormed |-> FALSE, convError |-> "", placemarks |-> <<>>]

Texts(n) ==
    [wellFormed : {TRUE}, convError : ConvMessages, placemarks : {<<>>}]
    \cup [wellFormed : BOOLEAN, convError : {""}, placemarks : SeqsUpTo(Placemarks, n)]

\* ---------------------------------------------------------------- values
Null == [present |-> FALSE, features |-> <<>>]

FeatureCollection(fs) == [present |-> TRUE, features |-> fs]

EmptyObj == [t \in {} |-> 0]

NoAlert == ""

VARIABLES
    geojsonData,    \* useState(null)
    elementCounts,  \* useState({})
    lineLengths,    \* useState({})
    activeView,     \* useState(null): "none" | "summary" | "details"
    isLoading,      \* useState(false)
    pending,        \* FileReaders in flight, in the order they were started
    pc,             \* position inside parseKML, "idle" outside it
    kmlText,        \* the read handed to the parseKML call being executed
    locals,         \* counts and lengths of the parseKML call being executed
    alerted,        \* message of the alert() the latest FileReader callback raised,
                    \* or NoAlert
    logged,         \* console.error calls the latest FileReader callback made
    view,           \* what the latest render saw and produced
    uploadsLeft,    \* reads the user may still start
    featuresLeft,   \* Placemarks the files still to be uploaded may hold
    justCleared,    \* ghost: the handler that ran latest was clearData
    lastOk          \* ghost: the Placemarks of the read whose parseKML last
                    \* returned without raising, and whether a later read beat it

vars == <<geojsonData, elementCounts, lineLengths, activeView, isLoading,
          pending, pc, kmlText, locals, alerted, logged, view, uploadsLeft,
          featuresLeft, justCleared, lastOk>>

\* ------------------------------------------------------- pure functions

\* DOMParser.parseFromString(kmlText, 'text/xml')
parseFromString(text) ==
    [parsererror |-> ~text.wellFormed,
     convError |-> text.convError,
     placemarks |-> text.placemarks]

\* kml(kmlDoc): one feature per Placemark of the document; the parsererror
\* element is not looked at
kml(doc) ==
    IF doc.convError # ""
    THEN [threw |-> TRUE, message |-> doc.convError, features |-> <<>>]
    ELSE [threw |-> FALSE, message |-> "", features |-> doc.placemarks]

\* length(feature, {units: 'kilometers'})
length(feature) == [threw |-> feature.lenThrows, value |-> feature.len]

\* obj[key] = (obj[key] || 0) + n
AddTo(obj, key, n) ==
    [k \in DOMAIN obj \cup {key} |->
        IF k = key THEN (IF key \in DOMAIN obj THEN obj[key] ELSE 0) + n
        ELSE obj[k]]

\* on a length failure: drops the lengths accumulated so far
processFeature_resetOnError(acc, feature) ==
    IF feature.type = "none" THEN acc
    ELSE LET counted == [acc EXCEPT !.counts = AddTo(acc.counts, feature.type, 1)]
         IN IF feature.type \in LineTypes
            THEN IF length(feature).threw
                 THEN [counted EXCEPT !.lengths = EmptyObj, !.logged = @ + 1]
                 ELSE [counted EXCEPT !.lengths =
                          AddTo(acc.lengths, feature.type, length(feature).value)]
            ELSE counted

\* counts[type] = 1 instead of incrementing
processFeature_noIncrement(acc, feature) ==
    IF feature.type = "none" THEN acc
    ELSE LET counted == [acc EXCEPT !.counts =
                            [k \in DOMAIN acc.counts \cup {feature.type} |->
                                IF k = feature.type THEN 1 ELSE acc.counts[k]]]
         IN IF feature.type \in LineTypes
            THEN IF length(feature).threw
                 THEN [counted EXCEPT !.logged = @ + 1]
                 ELSE [counted EXCEPT !.lengths =
                          AddTo(acc.lengths, feature.type, length(feature).value)]
            ELSE counted

\* the body of the forEach callback
processFeature(acc, feature) ==
    IF feature.type = "none" THEN acc
    ELSE LET counted == [acc EXCEPT !.counts = AddTo(acc.counts, feature.type, 1)]
         IN IF feature.type \in LineTypes
            THEN IF length(feature).threw
                 THEN [counted EXCEPT !.logged = @ + 1]
                 ELSE [counted EXCEPT !.lengths =
                          AddTo(acc.lengths, feature.type, length(feature).value)]
            ELSE counted

RECURSIVE forEachFrom(_, _, _)
\* converted.features.forEach(...), from index i on
forEachFrom(features, i, acc) ==
    IF i > Len(features) THEN acc
    ELSE forEachFrom(features, i + 1, processFeature(acc, features[i]))

forEach(features) ==
    forEachFrom(features, 1, [counts |-> EmptyObj, lengths |-> EmptyObj, logged |-> 0])

\* the catch block also drops the displayed collection
parseKML_clearOnError(text, st) ==
    LET converted == kml(parseFromString(text))
        tally == forEach(converted.features)
    IN IF converted.threw
       THEN [geojsonData |-> Null,
             elementCounts |-> st.elementCounts,
             lineLengths |-> st.lineLengths,
             isLoading |-> FALSE,
             alerted |-> "Error parsing KML file: " \o converted.message,
             logged |-> 0]
       ELSE [geojsonData |-> FeatureCollection(converted.features),
             elementCounts |-> tally.counts,
             lineLengths |-> tally.lengths,
             isLoading |-> FALSE,
             alerted |-> NoAlert,
             logged |-> tally.logged]

\* setIsLoading(false) placed at the end of the try block instead of finally
parseKML_noFinally(text, st) ==
    LET converted == kml(parseFromString(text))
        tally == forEach(converted.features)
    IN IF converted.threw
       THEN [geojsonData |-> st.geojsonData,
             elementCounts |-> st.elementCounts,
             lineLengths |-> st.lineLengths,
             isLoading |-> TRUE,
             alerted |-> "Error parsing KML file: " \o converted.message,
             logged |-> 0]
       ELSE [geojsonData |-> FeatureCollection(converted.features),
             elementCounts |-> tally.counts,
             lineLengths |-> tally.lengths,
             isLoading |-> FALSE,
             alerted |-> NoAlert,
             logged |-> tally.logged]

\* parseKML after setIsLoading(true): the values its setters set and its alert
\* and log output, from the hooks' values st before it
parseKML(text, st) ==
    LET converted == kml(parseFromString(text))
        tally == forEach(converted.features)
    IN IF converted.threw
       THEN [geojsonData |-> st.geojsonData,
             elementCounts |-> st.elementCounts,
             lineLengths |-> st.lineLengths,
             isLoading |-> FALSE,
             alerted |-> "Error parsing KML file: " \o converted.message,
             logged |-> 0]
       ELSE [geojsonData |-> FeatureCollection(converted.features),
             elementCounts |-> tally.counts,
             lineLengths |-> tally.lengths,
             isLoading |-> FALSE,
             alerted |-> NoAlert,
             logged |-> tally.logged]

\* FitBounds: does the render call map.fitBounds?
FitBounds(geojson) == geojson.present /\ Len(geojson.features) > 0

\* every button rendered enabled
Render_alwaysEnabled(data, counts, lengths, active, loading) ==
    [geojson |-> data, counts |-> counts, lengths |-> lengths, active |-> active,
     spinner |-> loading,
     buttonsDisabled |-> FALSE,
     summary |-> IF active # "summary" THEN "hidden"
                 ELSE IF DOMAIN counts # {} THEN "table"
                 ELSE "No elements found in KML file",
     details |-> IF active # "details" THEN "hidden"
                 ELSE IF DOMAIN lengths # {} THEN "table"
                 ELSE "No line elements found in KML file",
     overlay |-> data.present,
     fitBounds |-> FitBounds(data)]

\* the JSX the component returns for the hook values a render sees: the
\* values themselves (the rows of the two tables, the data of the overlay)
\* and what is shown of them
Render(data, counts, lengths, active, loading) ==
    [geojson |-> data, counts |-> counts, lengths |-> lengths, active |-> active,
     spinner |-> loading,
     buttonsDisabled |-> ~data.present,
     summary |-> IF active # "summary" THEN "hidden"
                 ELSE IF DOMAIN counts # {} THEN "table"
                 ELSE "No elements found in KML file",
     details |-> IF active # "details" THEN "hidden"
                 ELSE IF DOMAIN lengths # {} THEN "table"
                 ELSE "No line elements found in KML file",
     overlay |-> data.present,
     fitBounds |-> FitBounds(data)]

\* a new reader aborts the ones still in flight
readAsText_abortEarlier(readers, text) == <<[text |-> text, overtaken |-> FALSE]>>

\* reader.readAsText(file): one more read in flight
readAsText(readers, text) == Append(readers, [text |-> text, overtaken |-> FALSE])

\* the readers left in flight after reader i delivered its callback; the
\* ghost field overtaken marks the oldest of them once a read started after
\* it has delivered
Delivered(readers, i) ==
    [j \in 1..(Len(readers) - 1) |->
        IF j < i
        THEN (IF j = 1 THEN [readers[j] EXCEPT !.overtaken = TRUE] ELSE readers[j])
        ELSE readers[j + 1]]

\* ---------------------------------------------------------------- state
NoText == [text |-> NonXmlText, overtaken |-> FALSE]

NoRead == [present |-> FALSE, placemarks |-> <<>>, overtaken |-> FALSE]

\* const counts = {}; const lengths = {}
NoLocals == [counts |-> EmptyObj, lengths |-> EmptyObj, isLoading |-> FALSE]

Init ==
    /\ geojsonData = Null
    /\ elementCounts = EmptyObj
    /\ lineLengths = EmptyObj
    /\ activeView = "none"
    /\ isLoading = FALSE
    /\ pending = <<>>
    /\ pc = "idle"
    /\ kmlText = NoText
    /\ locals = NoLocals
    /\ alerted = NoAlert
    /\ logged = 0
    /\ view = Render(Null, EmptyObj, EmptyObj, "none", FALSE)
    /\ uploadsLeft = MaxUploads
    /\ featuresLeft = MaxFeatures
    /\ justCleared = FALSE
    /\ lastOk = NoRead

\* --------------------------------------------------------------- actions
hooks == <<geojsonData, elementCounts, lineLengths, activeView, isLoading>>

\* a setter called from a FileReader callback rendering at once
SetterRender_synchronous ==
    view' = Render(geojsonData', elementCounts', lineLengths',
                   activeView', isLoading')

\* what a setter called from a FileReader callback does to the screen: under
\* createRoot the update is only queued, and nothing is rendered before the
\* callback has returned
SetterRender == view' = view

\* the render at the end of a React event handler (a click).  It shows the
\* handler's own updates; the updates a FileReader callback queued and that
\* no render has shown yet are either flushed with them or left for the
\* render task, depending on the React release.
EventRender(setsData) ==
    \/ view' = Render(geojsonData', elementCounts', lineLengths',
                      activeView', isLoading')
    \/ view' = IF setsData
               THEN Render(geojsonData', elementCounts', lineLengths',
                           activeView', view.spinner)
               ELSE Render(view.geojson, view.counts, view.lengths,
                           activeView', view.spinner)

\* the scheduler task that renders the queued updates
renderTask ==
    /\ pc = "idle"
    /\ view # Render(geojsonData, elementCounts, lineLengths, activeView, isLoading)
    /\ view' = Render(geojsonData, elementCounts, lineLengths, activeView, isLoading)
    /\ UNCHANGED <<hooks, pending, pc, kmlText, locals, alerted, logged,
                   uploadsLeft, featuresLeft, justCleared, lastOk>>

\* handleFileUpload: a change event of the file input
handleFileUpload ==
    /\ justCleared' = FALSE
    /\ pc = "idle"
    /\ \/ UNCHANGED <<pending, uploadsLeft, featuresLeft>>    \* no file: return
       \/ /\ uploadsLeft > 0
          /\ \E text \in Texts(featuresLeft) :
                /\ pending' = readAsText(pending, text)
                /\ featuresLeft' = featuresLeft - Len(text.placemarks)
          /\ uploadsLeft' = uploadsLeft - 1
    /\ UNCHANGED <<hooks, pc, kmlText, locals, alerted, logged, view, lastOk>>

\* handleDrop: a drop event on the upload area
handleDrop ==
    /\ justCleared' = FALSE
    /\ pc = "idle"
    /\ \/ UNCHANGED <<pending, uploadsLeft, featuresLeft>>    \* no file: return
       \/ /\ uploadsLeft > 0
          /\ \E text \in Texts(featuresLeft) :
                /\ pending' = readAsText(pending, text)
                /\ featuresLeft' = featuresLeft - Len(text.placemarks)
          /\ uploadsLeft' = uploadsLeft - 1
    /\ UNCHANGED <<hooks, pc, kmlText, locals, alerted, logged, view, lastOk>>

\* reader.onerror
readerOnError ==
    /\ justCleared' = FALSE
    /\ pc = "idle"
    /\ \E i \in 1..Len(pending) : pending' = Delivered(pending, i)
    /\ alerted' = "Error reading file"
    /\ logged' = 0
    /\ UNCHANGED <<hooks, pc, kmlText, locals, view, uploadsLeft,
                   featuresLeft, lastOk>>

\* reader.onload enters parseKML: setIsLoading(true)
readerOnLoad ==
    /\ justCleared' = FALSE
    /\ pc = "idle"
    /\ \E i \in 1..Len(pending) :
          /\ kmlText' = pending[i]
          /\ pending' = Delivered(pending, i)
    /\ isLoading' = TRUE
    /\ pc' = "parsing"
    /\ alerted' = NoAlert
    /\ logged' = 0
    /\ UNCHANGED <<geojsonData, elementCounts, lineLengths, activeView,
                   locals, uploadsLeft, featuresLeft, lastOk>>
    /\ SetterRender

\* parseKML from the DOMParser to setGeojsonData(converted), or to the end
\* of the catch and finally blocks when the conversion raises
parseKML_convert ==
    /\ pc = "parsing"
    /\ LET r == parseKML(kmlText.text,
                         [geojsonData |-> geojsonData,
                          elementCounts |-> elementCounts,
                          lineLengths |-> lineLengths])
       IN /\ alerted' = r.alerted
          /\ logged' = r.logged
          /\ geojsonData' = r.geojsonData
          /\ IF r.alerted # NoAlert
             THEN /\ elementCounts' = r.elementCounts
                  /\ lineLengths' = r.lineLengths
                  /\ isLoading' = r.isLoading
                  /\ pc' = "idle"
                  /\ kmlText' = NoText
                  /\ locals' = NoLocals
             ELSE /\ locals' = [counts |-> r.elementCounts,
                                lengths |-> r.lineLengths,
                                isLoading |-> r.isLoading]
                  /\ pc' = "setElementCounts"
                  /\ UNCHANGED <<elementCounts, lineLengths, isLoading, kmlText>>
    /\ UNCHANGED <<activeView, pending, uploadsLeft, featuresLeft,
                   justCleared, lastOk>>
    /\ SetterRender

\* setElementCounts(counts)
parseKML_setElementCounts ==
    /\ pc = "setElementCounts"
    /\ elementCounts' = locals.counts
    /\ pc' = "setLineLengths"
    /\ UNCHANGED <<geojsonData, lineLengths, activeView, isLoading, pending,
                   kmlText, locals, alerted, logged, uploadsLeft, featuresLeft,
                   justCleared, lastOk>>
    /\ SetterRender

\* setLineLengths(lengths)
parseKML_setLineLengths ==
    /\ pc = "setLineLengths"
    /\ lineLengths' = locals.lengths
    /\ pc' = "finally"
    /\ UNCHANGED <<geojsonData, elementCounts, activeView, isLoading, pending,
                   kmlText, locals, alerted, logged, uploadsLeft, featuresLeft,
                   justCleared, lastOk>>
    /\ SetterRender

\* the finally block after the try block completed, and the return
parseKML_finally ==
    /\ pc = "finally"
    /\ isLoading' = locals.isLoading
    /\ lastOk' = [present |-> TRUE, placemarks |-> kmlText.text.placemarks,
                  overtaken |-> kmlText.overtaken]
    /\ pc' = "idle"
    /\ kmlText' = NoText
    /\ locals' = NoLocals
    /\ UNCHANGED <<geojsonData, elementCounts, lineLengths, activeView,
                   pending, alerted, logged, uploadsLeft, featuresLeft, justCleared>>
    /\ SetterRender

\* onClick of Show Summary
showSummary ==
    /\ justCleared' = FALSE
    /\ pc = "idle"
    /\ ~view.buttonsDisabled
    /\ activeView' = "summary"
    /\ UNCHANGED <<geojsonData, elementCounts, lineLengths, isLoading,
                   pending, pc, kmlText, locals, alerted, logged, uploadsLeft,
                   featuresLeft, lastOk>>
    /\ EventRender(FALSE)

\* onClick of Show Details
showDetails ==
    /\ justCleared' = FALSE
    /\ pc = "idle"
    /\ ~view.buttonsDisabled
    /\ activeView' = "details"
    /\ UNCHANGED <<geojsonData, elementCounts, lineLengths, isLoading,
                   pending, pc, kmlText, locals, alerted, logged, uploadsLeft,
                   featuresLeft, lastOk>>
    /\ EventRender(FALSE)

\* clearData without setActiveView(null)
clearData_keepView(st) ==
    [geojsonData |-> Null, elementCounts |-> EmptyObj,
     lineLengths |-> EmptyObj, activeView |-> st.activeView]

\* clearData
clearData(st) ==
    [geojsonData |-> Null, elementCounts |-> EmptyObj,
     lineLengths |-> EmptyObj, activeView |-> "none"]

\* onClick of Clear Data
clickClear ==
    /\ justCleared' = TRUE
    /\ pc = "idle"
    /\ ~view.buttonsDisabled
    /\ LET r == clearData([geojsonData |-> geojsonData,
                           elementCounts |-> elementCounts,
                           lineLengths |-> lineLengths,
                           activeView |-> activeView])
       IN /\ geojsonData' = r.geojsonData
          /\ elementCounts' = r.elementCounts
          /\ lineLengths' = r.lineLengths
          /\ activeView' = r.activeView
    /\ lastOk' = NoRead
    /\ UNCHANGED <<isLoading, pending, pc, kmlText, locals, alerted, logged,
                   uploadsLeft, featuresLeft>>
    /\ EventRender(TRUE)

Next ==
    \/ handleFileUpload
    \/ handleDrop
    \/ readerOnError
    \/ readerOnLoad
    \/ parseKML_convert
    \/ parseKML_setElementCounts
    \/ parseKML_setLineLengths
    \/ parseKML_finally
    \/ renderTask
    \/ showSummary
    \/ showDetails
    \/ clickClear

Spec == Init /\ [][Next]_vars

TypeOK ==
    /\ activeView \in {"none", "summary", "details"}
    /\ pc \in {"idle", "parsing", "setElementCounts", "setLineLengths", "finally"}
    /\ isLoading \in BOOLEAN
    /\ uploadsLeft \in 0..MaxUploads
    /\ Len(pending) <= MaxUploads
    /\ featuresLeft \in 0..MaxFeatures

\* ------------------------------------------------------------ properties
\* What the metrics of a feature list are, stated over the list as a whole.

Indices(fs) == 1..Len(fs)

TypedIn(fs) == {i \in Indices(fs) : fs[i].type # "none"}

MeasuredIn(fs) == {i \in Indices(fs) : fs[i].type \in LineTypes /\ ~fs[i].lenThrows}

FailingIn(fs) == {i \in Indices(fs) : fs[i].type \in LineTypes /\ fs[i].lenThrows}

RECURSIVE SumLen(_, _)
SumLen(fs, S) ==
    IF S = {} THEN 0
    ELSE LET i == CHOOSE j \in S : TRUE IN fs[i].len + SumLen(fs, S \ {i})

ExpectedCounts(fs) ==
    [t \in {fs[i].type : i \in TypedIn(fs)} |->
        Cardinality({i \in Indices(fs) : fs[i].type = t})]

ExpectedLengths(fs) ==
    [t \in {fs[i].type : i \in MeasuredIn(fs)} |->
        SumLen(fs, {i \in MeasuredIn(fs) : fs[i].type = t})]

RECURSIVE SumVals(_, _)
SumVals(f, S) ==
    IF S = {} THEN 0
    ELSE LET k == CHOOSE j \in S : TRUE IN f[k] + SumVals(f, S \ {k})

ParseAlert(msg) == "Error parsing KML file: " \o msg

\* the step that ends a parseKML call
ParseReturns == pc # "idle" /\ pc' = "idle"

\* the step in which a parseKML call converts its text
ParseConverts == pc = "parsing" /\ pc' # "parsing"

\* C1: whenever a parseKML call returns after the conversion raised, an alert
\* carrying the message was shown and geojsonData, elementCounts, lineLengths
\* and activeView are what they were before the call.
C1_FailedParseKeepsState ==
    [][(ParseReturns /\ kmlText.text.convError # "")
        => /\ alerted' = ParseAlert(kmlText.text.convError)
           /\ geojsonData' = geojsonData
           /\ elementCounts' = elementCounts
           /\ lineLengths' = lineLengths
           /\ activeView' = activeView]_vars

\* a failed parse has returned while a non-empty collection with a panel open
\* was on display, and the collection is still there
C1_Witness ==
    /\ pc = "idle"
    /\ alerted \in {ParseAlert(m) : m \in ConvMessages}
    /\ geojsonData.present /\ Len(geojsonData.features) > 0
    /\ DOMAIN elementCounts # {}
    /\ activeView = "summary"

\* C2: a parseKML call on text that is not XML raises an alert and leaves
\* geojsonData, elementCounts and lineLengths as they were.
C2_NonXmlKeepsState ==
    [][(ParseConverts /\ ~kmlText.text.wellFormed)
        => /\ alerted' # NoAlert
           /\ geojsonData' = geojsonData
           /\ elementCounts' = elementCounts
           /\ lineLengths' = lineLengths]_vars

\* C3: what every render shows is consistent: the counts and lengths it sees
\* are the metrics of the collection it sees, both empty when it sees none;
\* and between handlers the three hooks are consistent in the same way, so no
\* later render can see a collection with the metrics of another.
C3_RenderedMetricsMatchData ==
    /\ view.counts = ExpectedCounts(view.geojson.features)
    /\ view.lengths = ExpectedLengths(view.geojson.features)
    /\ pc = "idle" =>
          /\ elementCounts = ExpectedCounts(geojsonData.features)
          /\ lineLengths = ExpectedLengths(geojsonData.features)

\* C3's case: a parse has replaced a measured collection that is on screen by
\* another one, and the render that will show the new one has not run yet
C3_Witness ==
    /\ pc = "idle"
    /\ view.geojson.present /\ view.lengths # EmptyObj
    /\ geojsonData.present /\ geojsonData.features # <<>>
    /\ geojsonData # view.geojson
    /\ elementCounts # view.counts

\* C4 as stated: the values of elementCounts sum to the number of features of
\* the stored collection.
C4_SumIsFeatureCount ==
    (pc = "idle" /\ geojsonData.present) =>
        SumVals(elementCounts, DOMAIN elementCounts) = Len(geojsonData.features)

\* C4 amended: the values of elementCounts sum to the number of features of
\* the stored collection that have a geometry type.
C4_SumIsTypedFeatureCount ==
    (pc = "idle" /\ geojsonData.present) =>
        SumVals(elementCounts, DOMAIN elementCounts)
            = Cardinality(TypedIn(geojsonData.features))

\* a stored collection holding a feature without geometry and a counted one
C4_Witness ==
    /\ pc = "idle"
    /\ geojsonData.present
    /\ Len(geojsonData.features) = 2
    /\ Cardinality(TypedIn(geojsonData.features)) = 1
    /\ SumVals(elementCounts, DOMAIN elementCounts) = 1

\* C5: every Clear step ends with no collection, empty counts and lengths,
\* activeView none, both panels hidden and the three buttons disabled.
C5_ClearResets ==
    [][clickClear
        => /\ ~geojsonData'.present
           /\ elementCounts' = EmptyObj
           /\ lineLengths' = EmptyObj
           /\ activeView' = "none"
           /\ view'.buttonsDisabled
           /\ view'.summary = "hidden" /\ view'.details = "hidden"
           /\ ~view'.overlay]_vars

\* Clear has just run
C5_Witness ==
    /\ justCleared
    /\ ~geojsonData.present
    /\ view.buttonsDisabled

NoGeometry(fs) == \A i \in Indices(fs) : fs[i].type = "none"

\* C6: whenever the collection a completed upload put on screen has no
\* feature with a geometry, an open Summary panel shows "No elements found",
\* an open Details panel shows "No line elements found", and the render did
\* not call map.fitBounds.
C6_NoGeometryNoFit ==
    (pc = "idle" /\ view.overlay /\ NoGeometry(view.geojson.features))
        => /\ ~view.fitBounds
           /\ view.active = "summary" => view.summary = "No elements found in KML file"
           /\ view.active = "details" => view.details = "No line elements found in KML file"

\* C7: starting a read leaves every read in flight in flight, and after any
\* parseKML call has returned the collection, counts and lengths are those of
\* the read whose parse last returned without raising, whether or not a read
\* started after it was delivered before it.
C7_LastCompletedReadWins ==
    [][/\ uploadsLeft' < uploadsLeft
            => /\ Len(pending') = Len(pending) + 1
               /\ SubSeq(pending', 1, Len(pending)) = pending
       /\ (pc' = "idle" /\ lastOk'.present)
            => /\ geojsonData' = FeatureCollection(lastOk'.placemarks)
               /\ elementCounts' = ExpectedCounts(lastOk'.placemarks)
               /\ lineLengths' = ExpectedLengths(lastOk'.placemarks)]_vars

\* the read started first was delivered last, and its features are on display
C7_Witness ==
    /\ pc = "idle" /\ pending = <<>> /\ uploadsLeft = 0
    /\ lastOk.present /\ lastOk.overtaken
    /\ geojsonData.present
    /\ Len(geojsonData.features) > 0
    /\ geojsonData.features = lastOk.placemarks

\* C8: a parseKML call on a KML in which length() raises for some line
\* features returns without an alert, logs once per such feature, stores the
\* whole collection, counts every feature that has a geometry, these included,
\* and sums in lineLengths the lengths of exactly the other line features.
C8_LengthFailureIsSkipped ==
    [][(/\ ParseReturns
        /\ kmlText.text.convError = ""
        /\ FailingIn(kmlText.text.placemarks) # {})
        => LET fs == kmlText.text.placemarks
           IN /\ alerted' = NoAlert
              /\ logged' = Cardinality(FailingIn(fs))
              /\ geojsonData' = FeatureCollection(fs)
              /\ \A i \in FailingIn(fs) :
                    /\ fs[i].type \in DOMAIN elementCounts'
                    /\ elementCounts'[fs[i].type]
                          = Cardinality({j \in Indices(fs) : fs[j].type = fs[i].type})
              /\ \A t \in LineTypes :
                    IF \E i \in MeasuredIn(fs) : fs[i].type = t
                    THEN /\ t \in DOMAIN lineLengths'
                         /\ lineLengths'[t]
                               = SumLen(fs, {i \in MeasuredIn(fs) : fs[i].type = t})
                    ELSE t \notin DOMAIN lineLengths'
              /\ DOMAIN elementCounts' = {fs[i].type : i \in TypedIn(fs)}]_vars

\* a collection with a measured line and a line of the same type whose length
\* failed is on display: one error logged, two counted, one measured
C8_Witness ==
    /\ pc = "idle" /\ logged = 1 /\ alerted = NoAlert
    /\ geojsonData.present
    /\ Len(geojsonData.features) = 2
    /\ Cardinality(FailingIn(geojsonData.features)) = 1
    /\ Cardinality(MeasuredIn(geojsonData.features)) = 1
    /\ DOMAIN elementCounts = {"LineString"}
    /\ elementCounts["LineString"] = 2
    /\ DOMAIN lineLengths = {"LineString"}

\* C9: isLoading is true exactly while a parseKML call is executing: false
\* initially, false while reads are only in flight, false once the call has
\* returned.
C9_LoadingOnlyWhileParsing == isLoading <=> pc # "idle"

\* a parseKML call that raised has returned and isLoading is false again
C9_Witness ==
    /\ pc = "idle" /\ ~isLoading
    /\ alerted \in {ParseAlert(m) : m \in ConvMessages}

\* a parseKML call is executing and isLoading is true
C9_WitnessDuring == pc = "setLineLengths" /\ isLoading

\* C10: activeView is summary or details, and a panel is rendered, only while
\* a collection is loaded.
C10_PanelNeedsData ==
    /\ activeView # "none" => geojsonData.present
    /\ (view.summary # "hidden" \/ view.details # "hidden")
          => (view.overlay /\ view.geojson.present)

\* a panel is open, a later upload failed, and the collection is still loaded
C10_Witness ==
    /\ pc = "idle"
    /\ activeView = "details"
    /\ alerted \in {ParseAlert(m) : m \in ConvMessages}
    /\ geojsonData.present
====
